---- MODULE Spec2Model ----
(***************************************************************************)
(* Training-session engine of the JumpingKids backend                      *)
(* (src/src/services/training_service.py) together with the rows it reads  *)
(* and writes: training sessions, assignments, kids (with their embedded   *)
(* stats) and routines.                                                    *)
(*                                                                         *)
(* Two specifications are given over the same tables and the same row      *)
(* transformations:                                                        *)
(*   Spec    one service call per step (calls served one after another);   *)
(*   SpecTx  every call is a database transaction of a worker: its SELECTs *)
(*           and its COMMIT are separate steps that interleave with the    *)
(*           transactions of the other workers.                            *)
(***************************************************************************)
EXTENDS Integers, Sequences, FiniteSets, TLC

VARIABLES sessions, assignments, kids, routines, now, result, txn, exercise_ok

vars == <<sessions, assignments, kids, routines, now, result, txn, exercise_ok>>

tables == <<sessions, assignments, kids, routines>>

\* ------------------------------------------------------------------ bounds
\* Calls are stamped with a logical clock; no call starts at MaxClock.
MaxClock == 3
\* The same for the calls of SpecTx.
MaxTxClock == 2
\* Largest exercise count of a routine / total_exercises of a stored session.
MaxTotal == 3

\* ------------------------------------------------------- program constants
MinTotalTime == 1
MinRating == 1
MaxRating == 5
MaxExerciseNoteLen == 200
MaxNoteLen == 500

\* ------------------------------------------------------------- identifiers
UserIds == {1, 2}
KidIds == {"k1", "k2"}
SessionIds == {"s1", "s2"}
AssignmentIds == {"a1"}
RoutineIds == {"r1", "r2"}
Workers == {"w1", "w2"}

\* Optional[T]: None or a one-element tuple.
None == <<>>
Some(v) == <<v>>

\* TrainingSessionStatus
IN_PROGRESS == "in-progress"
COMPLETED == "completed"
ABANDONED == "abandoned"
TrainingSessionStatus == {IN_PROGRESS, COMPLETED, ABANDONED}

\* AssignmentStatus
ASSIGNMENT_PENDING == "pending"
ASSIGNMENT_IN_PROGRESS == "in-progress"
ASSIGNMENT_COMPLETED == "completed"

\* KidStats() with every field at its default.
KidStats ==
  [total_routines |-> 0, this_week_completed |-> 0, this_week_assigned |-> 0,
   current_streak |-> 0, longest_streak |-> 0, favorite_category |-> None,
   total_minutes |-> 0, last_activity |-> None]

\* A Kid row (the columns the engine reads or writes).
Kid(user_id, stats) ==
  [user_id |-> user_id, is_active |-> TRUE, stats |-> stats, updated_at |-> None]

\* A TrainingSession row as the table model builds it: progress columns at
\* their defaults, total_exercises the snapshot of the routine's length.
TrainingSession(kid_id, assignment_id, routine_id, status, total_exercises) ==
  [kid_id |-> kid_id, assignment_id |-> assignment_id, routine_id |-> routine_id,
   status |-> status, started_at |-> 0, completed_at |-> None,
   current_exercise_index |-> 0, exercises_completed |-> 0,
   total_exercises |-> total_exercises, total_time_minutes |-> None,
   overall_rating |-> None, notes |-> None, updated_at |-> None]

\* A Routine row with the number of its RoutineExercise rows.
Routine(created_by, is_active, exercises) ==
  [created_by |-> created_by, is_active |-> is_active,
   exercises |-> exercises, updated_at |-> None]

\* An Assignment row.
Assignment(kid_id, routine_id) ==
  [kid_id |-> kid_id, routine_id |-> routine_id, status |-> ASSIGNMENT_PENDING,
   completed_at |-> None, completion_time_minutes |-> None,
   exercises_completed |-> None, notes |-> None, updated_at |-> None]

\* ------------------------------------------------------------------ inputs
\* Notes are identified by a tag and carry their length.
NoteShort == [text |-> "fun", len |-> 3]
NoteLong == [text |-> "long", len |-> MaxNoteLen + 1]

\* Bodies of PUT /training/sessions/{id}/complete offered by callers.
CompletionInputs ==
  { [total_time_minutes |-> 1, exercises_completed |-> 0,
     overall_rating |-> 5, notes |-> None],
    [total_time_minutes |-> 2, exercises_completed |-> MaxTotal + 1,
     overall_rating |-> 1, notes |-> Some(NoteShort)],
    [total_time_minutes |-> 0, exercises_completed |-> 1,
     overall_rating |-> 3, notes |-> None],
    [total_time_minutes |-> 1, exercises_completed |-> 0 - 1,
     overall_rating |-> 3, notes |-> None],
    [total_time_minutes |-> 1, exercises_completed |-> 1,
     overall_rating |-> 6, notes |-> None],
    [total_time_minutes |-> 1, exercises_completed |-> 1,
     overall_rating |-> 3, notes |-> Some(NoteLong)] }

\* Ids a caller can name that no table holds.
RoutineIdInputs == RoutineIds \cup {"r3"}
AssignmentIdInputs == {None} \cup {Some(a) : a \in AssignmentIds \cup {"a2"}}

\* RoutineUpdate.exercises: absent, or a list of the given length.
RoutineExerciseInputs == {None, Some(0), Some(1), Some(MaxTotal)}

\* Bodies of PUT /training/sessions/{id}/exercise/complete offered by callers.
ExerciseCompletionInputs ==
  { [completion_time_seconds |-> 30, rating |-> 4, notes |-> None],
    [completion_time_seconds |-> 0, rating |-> 4, notes |-> None] }

\* ExerciseCompletion: the field constraints checked when the body is parsed.
ExerciseCompletion(b) ==
  /\ b.completion_time_seconds >= 1
  /\ b.rating >= MinRating
  /\ b.rating <= MaxRating
  /\ (b.notes = None \/ b.notes[1].len <= MaxExerciseNoteLen)

\* Bodies of the completion of an assignment (AssignmentComplete, in bounds).
AssignmentCompleteInputs ==
  { [completion_time_minutes |-> 3, exercises_completed |-> 1,
     notes |-> Some(NoteShort)] }

\* stats_update dictionaries passed to KidService.update_kid_stats.
KidStatsUpdates ==
  { [f \in {"current_streak"} |-> 0],
    [f \in {"total_minutes", "this_week_assigned"} |-> 5] }

\* An id for an assignment that create_assignment stores.
NewAssignmentIds == {"a2"}

\* stats objects a caller can put into the body of POST /user/kids.
KidStatsInputs ==
  { KidStats,
    [KidStats EXCEPT !.current_streak = 2],
    [KidStats EXCEPT !.longest_streak = 2] }

\* Variant: the rating checked against its lower bound only.
SessionCompletion_NoUpperRating(c) ==
  /\ c.total_time_minutes >= MinTotalTime
  /\ c.exercises_completed >= 0
  /\ c.overall_rating >= MinRating
  /\ (c.notes = None \/ c.notes[1].len <= MaxNoteLen)

\* SessionCompletion: the field constraints checked when the body is parsed.
SessionCompletion(c) ==
  /\ c.total_time_minutes >= MinTotalTime
  /\ c.exercises_completed >= 0
  /\ c.overall_rating >= MinRating
  /\ c.overall_rating <= MaxRating
  /\ (c.notes = None \/ c.notes[1].len <= MaxNoteLen)

\* ------------------------------------------------------ queries on tables
\* Variant: the query of complete_session with the status condition of
\* complete_exercise.
SessionOfUser_InProgressOnly(S, K, session_id, user_id) ==
  /\ session_id \in DOMAIN S
  /\ S[session_id].kid_id \in DOMAIN K
  /\ K[S[session_id].kid_id].user_id = user_id
  /\ S[session_id].status = IN_PROGRESS

\* Variant: the join without the Kid.user_id condition.
SessionOfUser_AnyUser(S, K, session_id, user_id) ==
  /\ session_id \in DOMAIN S
  /\ S[session_id].kid_id \in DOMAIN K

\* select(TrainingSession).join(Kid).where(id == session_id, Kid.user_id == user_id)
SessionOfUser(S, K, session_id, user_id) ==
  /\ session_id \in DOMAIN S
  /\ S[session_id].kid_id \in DOMAIN K
  /\ K[S[session_id].kid_id].user_id = user_id

\* Variant: the query of complete_exercise without the status condition.
SessionInProgressOfUser_AnyStatus(S, K, session_id, user_id) ==
  SessionOfUser(S, K, session_id, user_id)

\* ... and TrainingSession.status == IN_PROGRESS
SessionInProgressOfUser(S, K, session_id, user_id) ==
  /\ SessionOfUser(S, K, session_id, user_id)
  /\ S[session_id].status = IN_PROGRESS

\* ------------------------------------------------------ row transformations
\* Variant: the count advanced without the index.
ExerciseProgress_NoIndex(row, t) ==
  LET r1 == [row EXCEPT !.exercises_completed = @ + 1,
                        !.updated_at = Some(t)]
  IN IF r1.exercises_completed >= r1.total_exercises
       THEN [r1 EXCEPT !.status = COMPLETED, !.completed_at = Some(t)]
       ELSE r1

\* Variant: the index advanced past the exercise that follows.
ExerciseProgress_ByTwo(row, t) ==
  LET r1 == [row EXCEPT !.exercises_completed = @ + 1,
                        !.current_exercise_index = @ + 2,
                        !.updated_at = Some(t)]
  IN IF r1.exercises_completed >= r1.total_exercises
       THEN [r1 EXCEPT !.status = COMPLETED, !.completed_at = Some(t)]
       ELSE r1

\* Variant: auto-finalize with > in place of >=.
ExerciseProgress_Late(row, t) ==
  LET r1 == [row EXCEPT !.exercises_completed = @ + 1,
                        !.current_exercise_index = @ + 1,
                        !.updated_at = Some(t)]
  IN IF r1.exercises_completed > r1.total_exercises
       THEN [r1 EXCEPT !.status = COMPLETED, !.completed_at = Some(t)]
       ELSE r1

\* complete_exercise: progress update and auto-finalize of a loaded row.
ExerciseProgress(row, t) ==
  LET r1 == [row EXCEPT !.exercises_completed = @ + 1,
                        !.current_exercise_index = @ + 1,
                        !.updated_at = Some(t)]
  IN IF r1.exercises_completed >= r1.total_exercises
       THEN [r1 EXCEPT !.status = COMPLETED, !.completed_at = Some(t)]
       ELSE r1

\* Variant: the status derived from the supplied count, so that a short count
\* puts the session back in progress.
SessionFinalize_Reopen(row, c, t) ==
  [row EXCEPT !.status = IF c.exercises_completed >= row.total_exercises
                           THEN COMPLETED ELSE IN_PROGRESS,
              !.completed_at = Some(t),
              !.total_time_minutes = Some(c.total_time_minutes),
              !.exercises_completed = c.exercises_completed,
              !.overall_rating = Some(c.overall_rating),
              !.notes = c.notes,
              !.updated_at = Some(t)]

\* Variant: the index set to the supplied count together with the count.
SessionFinalize_IndexFromCount(row, c, t) ==
  [row EXCEPT !.status = COMPLETED,
              !.completed_at = Some(t),
              !.total_time_minutes = Some(c.total_time_minutes),
              !.exercises_completed = c.exercises_completed,
              !.current_exercise_index = c.exercises_completed,
              !.overall_rating = Some(c.overall_rating),
              !.notes = c.notes,
              !.updated_at = Some(t)]

\* complete_session: the session columns set from the completion input.
SessionFinalize(row, c, t) ==
  [row EXCEPT !.status = COMPLETED,
              !.completed_at = Some(t),
              !.total_time_minutes = Some(c.total_time_minutes),
              !.exercises_completed = c.exercises_completed,
              !.overall_rating = Some(c.overall_rating),
              !.notes = c.notes,
              !.updated_at = Some(t)]

\* Variant: the note of the completion copied to the assignment, as
\* complete_assignment does.
AssignmentFinalize_WithNotes(row, c, t) ==
  [row EXCEPT !.status = ASSIGNMENT_COMPLETED,
              !.completed_at = Some(t),
              !.completion_time_minutes = Some(c.total_time_minutes),
              !.exercises_completed = Some(c.exercises_completed),
              !.notes = c.notes,
              !.updated_at = Some(t)]

\* complete_session: the linked assignment marked completed.
AssignmentFinalize(row, c, t) ==
  [row EXCEPT !.status = ASSIGNMENT_COMPLETED,
              !.completed_at = Some(t),
              !.completion_time_minutes = Some(c.total_time_minutes),
              !.exercises_completed = Some(c.exercises_completed),
              !.updated_at = Some(t)]

\* Variant: the cascade without the update of longest_streak.
StatsCascade_NoLongest(stats, c, t) ==
  [stats EXCEPT !.total_routines = @ + 1,
                !.this_week_completed = @ + 1,
                !.current_streak = @ + 1,
                !.total_minutes = @ + c.total_time_minutes,
                !.last_activity = Some(t)]

\* complete_session: the kid stats cascade on a dump of the stats.
StatsCascade(stats, c, t) ==
  LET s1 == [stats EXCEPT !.total_routines = @ + 1,
                          !.this_week_completed = @ + 1,
                          !.current_streak = @ + 1,
                          !.total_minutes = @ + c.total_time_minutes,
                          !.last_activity = Some(t)]
  IN IF s1.current_streak > s1.longest_streak
       THEN [s1 EXCEPT !.longest_streak = s1.current_streak]
       ELSE s1

\* The UPDATE a unit of work emits for a row: the columns whose value differs
\* from the value loaded are written, the others keep what the table holds.
Flush(current, loaded, changed) ==
  [f \in DOMAIN current |->
     IF changed[f] # loaded[f] THEN changed[f] ELSE current[f]]

\* The assignment row complete_session updates, if any.
LinkedAssignment(A, srow) ==
  IF srow.assignment_id # None /\ srow.assignment_id[1] \in DOMAIN A
    THEN {srow.assignment_id[1]} ELSE {}

\* Variant: level_up raised when the streak is the longest so far.
StatsUpdated_LevelUp(stats) ==
  [new_streak |-> stats.current_streak, total_minutes |-> stats.total_minutes,
   level_up |-> (stats.current_streak >= stats.longest_streak)]

\* stats_updated in the answer of complete_session.
StatsUpdated(stats) ==
  [new_streak |-> stats.current_streak, total_minutes |-> stats.total_minutes,
   level_up |-> FALSE]

\* ------------------------------------------------------------------- state
\* A worker between calls.
Idle ==
  [pc |-> "idle", op |-> "none", session_id |-> "-", user_id |-> 0,
   c |-> None, t |-> 0, loaded |-> None, a_loaded |-> None, k_loaded |-> None,
   locks |-> {}]

NoResult == [op |-> "none", target |-> "-", user_id |-> 0,
             outcome |-> "none", data |-> None]

Result(op, target, user_id, outcome, data) ==
  [op |-> op, target |-> target, user_id |-> user_id,
   outcome |-> outcome, data |-> data]

\* The tables when the service starts: kid k1 of user 1, an assignment of k1,
\* two routines, and rows of training_sessions in the form TrainingSession
\* gives them (s1 always, s2 possibly).
Init ==
  /\ kids = [k \in {"k1"} |-> Kid(1, KidStats)]
  /\ assignments = [a \in AssignmentIds |-> Assignment("k1", "r1")]
  /\ routines = [r \in RoutineIds |->
                   IF r = "r1" THEN Routine(ToString(1), TRUE, 2)
                   ELSE Routine("system", FALSE, 2)]
  /\ \E a \in {None, Some("a1")}, st \in {IN_PROGRESS, ABANDONED},
        n \in 1..MaxTotal, D \in {{"s1"}, SessionIds} :
       sessions = [s \in D |->
                     IF s = "s1" THEN TrainingSession("k1", a, "r1", st, n)
                     ELSE TrainingSession("k1", None, "r1", IN_PROGRESS, 2)]
  /\ now = 0
  /\ result = NoResult
  /\ txn = [w \in Workers |-> Idle]
  /\ exercise_ok = [s \in SessionIds |-> 0]

\* ---------------------------------------------------- calls, one per step
\* Variant: a stored session of another user answered differently from a
\* session that is not stored.
get_session_Forbidden(session_id, user_id) ==
  /\ now < MaxClock
  /\ now' = now + 1
  /\ result' = IF SessionOfUser(sessions, kids, session_id, user_id)
                 THEN Result("get_session", session_id, user_id, "ok",
                             Some(sessions[session_id]))
                 ELSE IF session_id \in DOMAIN sessions
                 THEN Result("get_session", session_id, user_id,
                             "forbidden", None)
                 ELSE Result("get_session", session_id, user_id,
                             "not_found", None)
  /\ UNCHANGED <<tables, txn, exercise_ok>>

\* TrainingService.get_session
get_session(session_id, user_id) ==
  /\ now < MaxClock
  /\ now' = now + 1
  /\ result' = IF SessionOfUser(sessions, kids, session_id, user_id)
                 THEN Result("get_session", session_id, user_id, "ok",
                             Some(sessions[session_id]))
                 ELSE Result("get_session", session_id, user_id,
                             "not_found", None)
  /\ UNCHANGED <<tables, txn, exercise_ok>>

\* Variant: the cascades of complete_session run by the call that
\* auto-finalizes the session.
complete_exercise_Cascading(session_id, user_id) ==
  /\ now < MaxClock
  /\ now' = now + 1
  /\ IF SessionInProgressOfUser(sessions, kids, session_id, user_id)
       THEN LET row == ExerciseProgress(sessions[session_id], now')
                kid_id == row.kid_id
            IN /\ sessions' = [sessions EXCEPT ![session_id] = Flush(@, @, row)]
               /\ result' = Result("complete_exercise", session_id, user_id,
                                   "ok", Some(sessions'[session_id]))
               /\ exercise_ok' = [exercise_ok EXCEPT ![session_id] = @ + 1]
               /\ assignments' =
                    [a \in DOMAIN assignments |->
                       IF /\ row.status = COMPLETED
                          /\ a \in LinkedAssignment(assignments, row)
                         THEN [assignments[a] EXCEPT
                                 !.status = ASSIGNMENT_COMPLETED,
                                 !.completed_at = Some(now'),
                                 !.updated_at = Some(now')]
                         ELSE assignments[a]]
               /\ kids' =
                    IF row.status = COMPLETED
                      THEN [kids EXCEPT
                              ![kid_id].stats.total_routines = @ + 1,
                              ![kid_id].stats.current_streak = @ + 1,
                              ![kid_id].updated_at = Some(now')]
                      ELSE kids
       ELSE /\ result' = Result("complete_exercise", session_id, user_id,
                                "not_found", None)
            /\ UNCHANGED <<sessions, exercise_ok, assignments, kids>>
  /\ UNCHANGED <<routines, txn>>

\* TrainingService.complete_exercise
complete_exercise(session_id, user_id) ==
  /\ now < MaxClock
  /\ now' = now + 1
  /\ IF SessionInProgressOfUser(sessions, kids, session_id, user_id)
       THEN LET row == ExerciseProgress(sessions[session_id], now')
            IN /\ sessions' = [sessions EXCEPT ![session_id] = Flush(@, @, row)]
               /\ result' = Result("complete_exercise", session_id, user_id,
                                   "ok", Some(sessions'[session_id]))
               /\ exercise_ok' = [exercise_ok EXCEPT ![session_id] = @ + 1]
       ELSE /\ result' = Result("complete_exercise", session_id, user_id,
                                "not_found", None)
            /\ UNCHANGED <<sessions, exercise_ok>>
  /\ UNCHANGED <<assignments, kids, routines, txn>>

\* TrainingService.complete_session, with the parsing of its body
complete_session(session_id, c, user_id) ==
  /\ now < MaxClock
  /\ now' = now + 1
  /\ IF ~SessionCompletion(c)
       THEN /\ result' = Result("complete_session", session_id, user_id,
                                "validation_error", None)
            /\ UNCHANGED <<sessions, assignments, kids>>
       ELSE IF ~SessionOfUser(sessions, kids, session_id, user_id)
       THEN /\ result' = Result("complete_session", session_id, user_id,
                                "not_found", None)
            /\ UNCHANGED <<sessions, assignments, kids>>
       ELSE LET srow == sessions[session_id]
                kid_id == srow.kid_id
                stats == StatsCascade(kids[kid_id].stats, c, now')
            IN /\ sessions' = [sessions EXCEPT ![session_id] =
                                 Flush(@, @, SessionFinalize(@, c, now'))]
               /\ assignments' =
                    [a \in DOMAIN assignments |->
                       IF a \in LinkedAssignment(assignments, srow)
                         THEN Flush(assignments[a], assignments[a],
                                    AssignmentFinalize(assignments[a], c, now'))
                         ELSE assignments[a]]
               /\ kids' = [kids EXCEPT ![kid_id].stats = stats,
                                       ![kid_id].updated_at = Some(now')]
               /\ result' = Result("complete_session", session_id, user_id, "ok",
                                   Some([session |-> sessions'[session_id],
                                         stats_updated |-> StatsUpdated(stats)]))
  /\ UNCHANGED <<routines, txn, exercise_ok>>

\* KidService.create_kid: the stats of the body are stored as given.
create_kid(kid_id, stats, user_id) ==
  /\ now < MaxClock
  /\ kid_id \notin DOMAIN kids
  /\ now' = now + 1
  /\ kids' = [k \in DOMAIN kids \cup {kid_id} |->
                IF k = kid_id THEN Kid(user_id, stats) ELSE kids[k]]
  /\ result' = Result("create_kid", kid_id, user_id, "ok", Some(kids'[kid_id]))
  /\ UNCHANGED <<sessions, assignments, routines, txn, exercise_ok>>

\* create_session: the kid of the request, active and of the caller.
KidOfUser(K, kid_id, user_id) ==
  /\ kid_id \in DOMAIN K
  /\ K[kid_id].user_id = user_id
  /\ K[kid_id].is_active

\* create_session: the routine of the request, active.
ActiveRoutine(R, routine_id) ==
  /\ routine_id \in DOMAIN R
  /\ R[routine_id].is_active

\* create_session: the number of RoutineExercise rows of the routine, the
\* value passed as total_exercises.  The exercises column of the routine row
\* stands for those rows.
TotalExercises(R, routine_id) == R[routine_id].exercises

\* Variant: the assignment query without the Assignment.kid_id condition.
AssignmentOfKid_AnyKid(A, K, assignment_id, kid_id, user_id) ==
  /\ assignment_id \in DOMAIN A
  /\ A[assignment_id].kid_id \in DOMAIN K
  /\ K[A[assignment_id].kid_id].user_id = user_id

\* create_session: the assignment of the request, joined to its kid.
AssignmentOfKid(A, K, assignment_id, kid_id, user_id) ==
  /\ assignment_id \in DOMAIN A
  /\ A[assignment_id].kid_id \in DOMAIN K
  /\ K[A[assignment_id].kid_id].user_id = user_id
  /\ A[assignment_id].kid_id = kid_id

\* Variant: the assignment of the request marked as started once found.
create_session_StartsAssignment(kid_id, routine_id, assignment_id, user_id) ==
  /\ now < MaxClock
  /\ now' = now + 1
  /\ LET found == /\ KidOfUser(kids, kid_id, user_id)
                  /\ ActiveRoutine(routines, routine_id)
                  /\ assignment_id # None
                  /\ AssignmentOfKid(assignments, kids, assignment_id[1],
                                     kid_id, user_id)
     IN /\ result' =
             IF ~KidOfUser(kids, kid_id, user_id)
               THEN Result("create_session", kid_id, user_id, "not_found",
                      Some("Kid not found"))
             ELSE IF ~ActiveRoutine(routines, routine_id)
               THEN Result("create_session", kid_id, user_id, "not_found",
                      Some("Routine not found"))
             ELSE IF /\ assignment_id # None
                     /\ ~AssignmentOfKid(assignments, kids, assignment_id[1],
                                         kid_id, user_id)
               THEN Result("create_session", kid_id, user_id, "not_found",
                      Some("Assignment not found"))
             ELSE Result("create_session", kid_id, user_id, "type_error",
                      None)
        /\ assignments' =
             IF found
               THEN [assignments EXCEPT
                       ![assignment_id[1]].status = ASSIGNMENT_IN_PROGRESS]
               ELSE assignments
  /\ UNCHANGED <<sessions, kids, routines, txn, exercise_ok>>

\* TrainingService.create_session: the three look-ups, then the construction
\* of the row.  session_data.model_dump() already carries total_exercises
\* (TrainingSessionCreate declares it), so TrainingSession(**dump,
\* total_exercises=...) receives the keyword twice and raises TypeError
\* before anything is added to the unit of work.
create_session(kid_id, routine_id, assignment_id, user_id) ==
  /\ now < MaxClock
  /\ now' = now + 1
  /\ result' =
       IF ~KidOfUser(kids, kid_id, user_id)
         THEN Result("create_session", kid_id, user_id, "not_found",
                Some("Kid not found"))
       ELSE IF ~ActiveRoutine(routines, routine_id)
         THEN Result("create_session", kid_id, user_id, "not_found",
                Some("Routine not found"))
       ELSE IF /\ assignment_id # None
               /\ ~AssignmentOfKid(assignments, kids, assignment_id[1],
                                   kid_id, user_id)
         THEN Result("create_session", kid_id, user_id, "not_found",
                Some("Assignment not found"))
       ELSE Result("create_session", kid_id, user_id, "type_error",
              None)
  /\ UNCHANGED <<tables, txn, exercise_ok>>

\* KidService.delete_kid: soft delete of the caller's active kid.
delete_kid(kid_id, user_id) ==
  /\ now < MaxClock
  /\ now' = now + 1
  /\ IF KidOfUser(kids, kid_id, user_id)
       THEN /\ kids' = [kids EXCEPT ![kid_id].is_active = FALSE,
                                    ![kid_id].updated_at = Some(now')]
            /\ result' = Result("delete_kid", kid_id, user_id, "ok", None)
       ELSE /\ kids' = kids
            /\ result' = Result("delete_kid", kid_id, user_id, "not_found",
                                None)
  /\ UNCHANGED <<sessions, assignments, routines, txn, exercise_ok>>

\* Variant: the new length of the routine copied to its sessions in progress.
update_routine_Resync(routine_id, exercises, user_id) ==
  /\ now < MaxClock
  /\ now' = now + 1
  /\ IF /\ routine_id \in DOMAIN routines
        /\ routines[routine_id].created_by = ToString(user_id)
        /\ routines[routine_id].is_active
       THEN /\ routines' =
                 [routines EXCEPT
                    ![routine_id].exercises =
                       IF exercises = None THEN @ ELSE exercises[1],
                    ![routine_id].updated_at = Some(now')]
            /\ sessions' =
                 [s \in DOMAIN sessions |->
                    IF /\ exercises # None
                       /\ sessions[s].routine_id = routine_id
                       /\ sessions[s].status = IN_PROGRESS
                      THEN [sessions[s] EXCEPT !.total_exercises = exercises[1]]
                      ELSE sessions[s]]
            /\ result' = Result("update_routine", routine_id, user_id, "ok",
                                Some(routines'[routine_id]))
       ELSE /\ routines' = routines
            /\ sessions' = sessions
            /\ result' = Result("update_routine", routine_id, user_id,
                                "not_found", None)
  /\ UNCHANGED <<assignments, kids, txn, exercise_ok>>

\* RoutineService.update_routine: the caller's own active routine; a given
\* exercise list replaces the RoutineExercise rows of the routine.
update_routine(routine_id, exercises, user_id) ==
  /\ now < MaxClock
  /\ now' = now + 1
  /\ IF /\ routine_id \in DOMAIN routines
        /\ routines[routine_id].created_by = ToString(user_id)
        /\ routines[routine_id].is_active
       THEN /\ routines' =
                 [routines EXCEPT
                    ![routine_id].exercises =
                       IF exercises = None THEN @ ELSE exercises[1],
                    ![routine_id].updated_at = Some(now')]
            /\ result' = Result("update_routine", routine_id, user_id, "ok",
                                Some(routines'[routine_id]))
       ELSE /\ routines' = routines
            /\ result' = Result("update_routine", routine_id, user_id,
                                "not_found", None)
  /\ UNCHANGED <<sessions, assignments, kids, txn, exercise_ok>>

Next ==
  \/ \E k \in KidIds, r \in RoutineIds, a \in {None, Some("a1")},
        u \in UserIds : create_session(k, r, a, u)
  \/ \E s \in SessionIds, u \in UserIds : get_session(s, u)
  \/ \E s \in SessionIds, u \in UserIds : complete_exercise(s, u)
  \/ \E s \in SessionIds, c \in CompletionInputs, u \in UserIds :
       complete_session(s, c, u)
  \/ \E k \in KidIds, st \in KidStatsInputs, u \in UserIds : create_kid(k, st, u)

Spec == Init /\ [][Next]_vars

\* KidService.update_kid: the profile columns of the caller's active kid are
\* set from the body (KidUpdate has no stats field); of the columns kept
\* here only updated_at changes.
update_kid(kid_id, user_id) ==
  /\ now < MaxClock
  /\ now' = now + 1
  /\ IF KidOfUser(kids, kid_id, user_id)
       THEN /\ kids' = [kids EXCEPT ![kid_id].updated_at = Some(now')]
            /\ result' = Result("update_kid", kid_id, user_id, "ok",
                                Some(kids'[kid_id]))
       ELSE /\ kids' = kids
            /\ result' = Result("update_kid", kid_id, user_id, "not_found",
                                None)
  /\ UNCHANGED <<sessions, assignments, routines, txn, exercise_ok>>

\* KidService.update_kid_stats: the dump of the stats updated with the given
\* dictionary and stored as a new KidStats.
update_kid_stats(kid_id, user_id, stats_update) ==
  /\ now < MaxClock
  /\ now' = now + 1
  /\ IF KidOfUser(kids, kid_id, user_id)
       THEN LET current_stats ==
                  [f \in DOMAIN kids[kid_id].stats |->
                     IF f \in DOMAIN stats_update THEN stats_update[f]
                     ELSE kids[kid_id].stats[f]]
            IN /\ kids' = [kids EXCEPT ![kid_id].stats = current_stats,
                                       ![kid_id].updated_at = Some(now')]
               /\ result' = Result("update_kid_stats", kid_id, user_id, "ok",
                                   Some(kids'[kid_id]))
       ELSE /\ kids' = kids
            /\ result' = Result("update_kid_stats", kid_id, user_id,
                                "not_found", None)
  /\ UNCHANGED <<sessions, assignments, routines, txn, exercise_ok>>

\* AssignmentService.create_assignment: the kid and routine look-ups, then
\* the row built from the body (its status included).
create_assignment(assignment_id, kid_id, routine_id, st, user_id) ==
  /\ now < MaxClock
  /\ assignment_id \notin DOMAIN assignments
  /\ now' = now + 1
  /\ IF KidOfUser(kids, kid_id, user_id) /\ ActiveRoutine(routines, routine_id)
       THEN /\ assignments' =
                 [a \in DOMAIN assignments \cup {assignment_id} |->
                    IF a = assignment_id
                      THEN [Assignment(kid_id, routine_id) EXCEPT !.status = st]
                      ELSE assignments[a]]
            /\ result' = Result("create_assignment", assignment_id, user_id,
                                "ok", Some(assignments'[assignment_id]))
       ELSE /\ assignments' = assignments
            /\ result' = Result("create_assignment", assignment_id, user_id,
                                "not_found", None)
  /\ UNCHANGED <<sessions, kids, routines, txn, exercise_ok>>

\* AssignmentService.complete_assignment
complete_assignment(assignment_id, ac, user_id) ==
  /\ now < MaxClock
  /\ now' = now + 1
  /\ IF /\ assignment_id \in DOMAIN assignments
        /\ assignments[assignment_id].kid_id \in DOMAIN kids
        /\ kids[assignments[assignment_id].kid_id].user_id = user_id
        /\ kids[assignments[assignment_id].kid_id].is_active
       THEN /\ assignments' =
                 [assignments EXCEPT ![assignment_id] =
                    [@ EXCEPT !.status = ASSIGNMENT_COMPLETED,
                              !.completed_at = Some(now'),
                              !.completion_time_minutes =
                                 Some(ac.completion_time_minutes),
                              !.exercises_completed =
                                 Some(ac.exercises_completed),
                              !.notes = ac.notes,
                              !.updated_at = Some(now')]]
            /\ result' = Result("complete_assignment", assignment_id, user_id,
                                "ok", Some(assignments'[assignment_id]))
       ELSE /\ assignments' = assignments
            /\ result' = Result("complete_assignment", assignment_id, user_id,
                                "not_found", None)
  /\ UNCHANGED <<sessions, kids, routines, txn, exercise_ok>>

\* The route PUT /training/sessions/{session_id}/exercise/complete: the body
\* is parsed, then TrainingService.complete_exercise, which takes
\* (session_id, user_id), is called with (session_id, completion_data,
\* current_user.id); the call raises TypeError before the method body runs.
router_complete_exercise(session_id, b, user_id) ==
  /\ now < MaxClock
  /\ now' = now + 1
  /\ result' = IF ~ExerciseCompletion(b)
                 THEN Result("router_complete_exercise", session_id, user_id,
                             "validation_error", None)
                 ELSE Result("router_complete_exercise", session_id, user_id,
                             "type_error", None)
  /\ UNCHANGED <<tables, txn, exercise_ok>>

\* The calls that start a session and the calls that change what a session
\* was started from, with ids that no table holds among the inputs.
NextSetup ==
  \/ \E k \in KidIds, r \in RoutineIdInputs, a \in AssignmentIdInputs,
        u \in UserIds : create_session(k, r, a, u)
  \/ \E k \in KidIds, u \in UserIds : create_kid(k, KidStats, u)
  \/ \E k \in KidIds, u \in UserIds : delete_kid(k, u)
  \/ \E r \in RoutineIdInputs, e \in RoutineExerciseInputs, u \in UserIds :
       update_routine(r, e, u)
  \/ \E s \in SessionIds, u \in UserIds : complete_exercise(s, u)
  \/ \E s \in SessionIds, u \in UserIds,
        c \in {x \in CompletionInputs : SessionCompletion(x)} :
       complete_session(s, c, u)

\* One session of two exercises, in progress or abandoned, with or without
\* its assignment.
InitSetup ==
  /\ Init
  /\ DOMAIN sessions = {"s1"}
  /\ sessions["s1"].total_exercises = 2

SpecSetup == InitSetup /\ [][NextSetup]_vars

\* The calls of the kid, assignment and training services that read or write
\* the rows of a kid.
NextKids ==
  \/ \E k \in KidIds, u \in UserIds : create_kid(k, KidStats, u)
  \/ \E k \in KidIds, u \in UserIds : update_kid(k, u)
  \/ \E k \in KidIds, u \in UserIds : delete_kid(k, u)
  \/ \E k \in KidIds, u \in UserIds, d \in KidStatsUpdates :
       update_kid_stats(k, u, d)
  \/ \E a \in NewAssignmentIds, k \in KidIds, r \in RoutineIds,
        st \in {ASSIGNMENT_PENDING, ASSIGNMENT_COMPLETED}, u \in UserIds :
       create_assignment(a, k, r, st, u)
  \/ \E a \in AssignmentIds \cup NewAssignmentIds,
        ac \in AssignmentCompleteInputs, u \in UserIds :
       complete_assignment(a, ac, u)
  \/ \E k \in KidIds, r \in RoutineIds, a \in {None, Some("a1")},
        u \in UserIds : create_session(k, r, a, u)
  \/ \E s \in SessionIds, u \in UserIds : get_session(s, u)
  \/ \E s \in SessionIds, u \in UserIds : complete_exercise(s, u)
  \/ \E s \in SessionIds, u \in UserIds,
        c \in {x \in CompletionInputs : SessionCompletion(x)} :
       complete_session(s, c, u)

SpecKids == InitSetup /\ [][NextKids]_vars

\* The training routes as the request layer serves them.
NextRoutes ==
  \/ \E k \in KidIds, r \in RoutineIds, a \in {None, Some("a1")},
        u \in UserIds : create_session(k, r, a, u)
  \/ \E s \in SessionIds, u \in UserIds : get_session(s, u)
  \/ \E s \in SessionIds, b \in ExerciseCompletionInputs, u \in UserIds :
       router_complete_exercise(s, b, u)
  \/ \E s \in SessionIds, c \in CompletionInputs, u \in UserIds :
       complete_session(s, c, u)

SpecRoutes == Init /\ [][NextRoutes]_vars

\* ------------------------------------------- calls as database transactions
\* Every request gets its own Session(engine) from get_db; a SELECT reads the
\* committed tables, an UPDATE sent by a flush locks its row until the
\* transaction ends, and commit() publishes all UPDATEs of the unit of work
\* at once.
LockedByOther(w, keys) ==
  \E v \in Workers \ {w} : txn[v].locks \cap keys # {}

SessionKey(session_id) == <<"training_sessions", session_id>>
AssignmentKey(assignment_id) == <<"assignments", assignment_id>>
KidKey(kid_id) == <<"kids", kid_id>>

\* get_session as one SELECT
get_session_tx(w, session_id, user_id) ==
  /\ txn[w].pc = "idle"
  /\ now < MaxTxClock
  /\ now' = now + 1
  /\ result' = IF SessionOfUser(sessions, kids, session_id, user_id)
                 THEN Result("get_session", session_id, user_id, "ok",
                             Some(sessions[session_id]))
                 ELSE Result("get_session", session_id, user_id,
                             "not_found", None)
  /\ UNCHANGED <<tables, txn, exercise_ok>>

\* complete_exercise, lines 115-126: the SELECT and the early return
complete_exercise_select(w, session_id, user_id) ==
  /\ txn[w].pc = "idle"
  /\ now < MaxTxClock
  /\ now' = now + 1
  /\ IF SessionInProgressOfUser(sessions, kids, session_id, user_id)
       THEN /\ txn' = [txn EXCEPT ![w] =
                 [Idle EXCEPT !.pc = "ce_commit", !.op = "complete_exercise",
                              !.session_id = session_id, !.user_id = user_id,
                              !.t = now', !.loaded = Some(sessions[session_id])]]
            /\ UNCHANGED result
       ELSE /\ result' = Result("complete_exercise", session_id, user_id,
                                "not_found", None)
            /\ UNCHANGED txn
  /\ UNCHANGED <<tables, exercise_ok>>

\* complete_exercise, lines 128-142: update of the loaded object, commit, refresh
complete_exercise_commit(w) ==
  LET x == txn[w]
      row == ExerciseProgress(x.loaded[1], x.t)
  IN /\ x.pc = "ce_commit"
     /\ ~LockedByOther(w, {SessionKey(x.session_id)})
     /\ sessions' = [sessions EXCEPT ![x.session_id] = Flush(@, x.loaded[1], row)]
     /\ exercise_ok' = [exercise_ok EXCEPT ![x.session_id] = @ + 1]
     /\ result' = Result("complete_exercise", x.session_id, x.user_id, "ok",
                         Some(sessions'[x.session_id]))
     /\ txn' = [txn EXCEPT ![w] = Idle]
     /\ UNCHANGED <<assignments, kids, routines, now>>

\* complete_session, lines 151-172: parsing of the body, the SELECT, the early
\* return, and the session object modified in memory
complete_session_select(w, session_id, c, user_id) ==
  /\ txn[w].pc = "idle"
  /\ now < MaxTxClock
  /\ now' = now + 1
  /\ IF ~SessionCompletion(c)
       THEN /\ result' = Result("complete_session", session_id, user_id,
                                "validation_error", None)
            /\ UNCHANGED txn
       ELSE IF ~SessionOfUser(sessions, kids, session_id, user_id)
       THEN /\ result' = Result("complete_session", session_id, user_id,
                                "not_found", None)
            /\ UNCHANGED txn
       ELSE /\ txn' = [txn EXCEPT ![w] =
                 [Idle EXCEPT !.pc = IF sessions[session_id].assignment_id # None
                                       THEN "cs_assignment" ELSE "cs_kid",
                              !.op = "complete_session",
                              !.session_id = session_id, !.user_id = user_id,
                              !.c = Some(c), !.t = now',
                              !.loaded = Some(sessions[session_id])]]
            /\ UNCHANGED result
  /\ UNCHANGED <<tables, exercise_ok>>

\* complete_session, lines 175-187: the SELECT of the assignment; it flushes
\* the UPDATE of the session row first.
complete_session_assignment(w) ==
  LET x == txn[w]
      aid == x.loaded[1].assignment_id[1]
  IN /\ x.pc = "cs_assignment"
     /\ ~LockedByOther(w, {SessionKey(x.session_id)})
     /\ txn' = [txn EXCEPT ![w].pc = "cs_kid",
                           ![w].locks = @ \cup {SessionKey(x.session_id)},
                           ![w].a_loaded =
                              IF aid \in DOMAIN assignments
                                THEN Some(assignments[aid]) ELSE None]
     /\ UNCHANGED <<tables, now, result, exercise_ok>>

\* Variant: a session in autocommit mode, where the flushed UPDATE of the
\* session row is published at once.
complete_session_kid_autocommit(w) ==
  LET x == txn[w]
      kid_id == x.loaded[1].kid_id
      keys == {SessionKey(x.session_id)} \cup
              (IF x.a_loaded # None
                 THEN {AssignmentKey(x.loaded[1].assignment_id[1])} ELSE {})
  IN /\ x.pc = "cs_kid"
     /\ ~LockedByOther(w, keys)
     /\ sessions' = [sessions EXCEPT ![x.session_id] =
                       Flush(@, x.loaded[1],
                             SessionFinalize(x.loaded[1], x.c[1], x.t))]
     /\ txn' = [txn EXCEPT ![w].pc = "cs_commit",
                           ![w].locks = @ \cup keys,
                           ![w].k_loaded =
                              IF kid_id \in DOMAIN kids
                                THEN Some(kids[kid_id]) ELSE None]
     /\ UNCHANGED <<assignments, kids, routines, now, result, exercise_ok>>

\* complete_session, lines 190-209: the SELECT of the kid; it flushes the
\* UPDATEs of the session row and of the assignment row first.
complete_session_kid(w) ==
  LET x == txn[w]
      kid_id == x.loaded[1].kid_id
      keys == {SessionKey(x.session_id)} \cup
              (IF x.a_loaded # None
                 THEN {AssignmentKey(x.loaded[1].assignment_id[1])} ELSE {})
  IN /\ x.pc = "cs_kid"
     /\ ~LockedByOther(w, keys)
     /\ txn' = [txn EXCEPT ![w].pc = "cs_commit",
                           ![w].locks = @ \cup keys,
                           ![w].k_loaded =
                              IF kid_id \in DOMAIN kids
                                THEN Some(kids[kid_id]) ELSE None]
     /\ UNCHANGED <<tables, now, result, exercise_ok>>

\* complete_session, lines 211-224: commit of the three UPDATEs, refresh, answer
complete_session_commit(w) ==
  LET x == txn[w]
      c == x.c[1]
      srow == x.loaded[1]
      kid_id == srow.kid_id
      stats == StatsCascade(x.k_loaded[1].stats, c, x.t)
      kid_new == [x.k_loaded[1] EXCEPT !.stats = stats, !.updated_at = Some(x.t)]
  IN /\ x.pc = "cs_commit"
     /\ x.k_loaded # None => ~LockedByOther(w, {KidKey(kid_id)})
     /\ sessions' = [sessions EXCEPT ![x.session_id] =
                       Flush(@, srow, SessionFinalize(srow, c, x.t))]
     /\ assignments' =
          [a \in DOMAIN assignments |->
             IF x.a_loaded # None /\ a = srow.assignment_id[1]
               THEN Flush(assignments[a], x.a_loaded[1],
                          AssignmentFinalize(x.a_loaded[1], c, x.t))
               ELSE assignments[a]]
     /\ kids' = IF x.k_loaded # None
                  THEN [kids EXCEPT ![kid_id] = Flush(@, x.k_loaded[1], kid_new)]
                  ELSE kids
     /\ result' = Result("complete_session", x.session_id, x.user_id, "ok",
                         Some([session |-> sessions'[x.session_id],
                               stats_updated |->
                                 IF x.k_loaded # None THEN StatsUpdated(stats)
                                 ELSE [new_streak |-> 0, total_minutes |-> 0,
                                       level_up |-> FALSE]]))
     /\ txn' = [txn EXCEPT ![w] = Idle]
     /\ UNCHANGED <<routines, now, exercise_ok>>

\* Variant: closing the session commits what was flushed instead of rolling
\* it back.
get_db_commit_on_close(w) ==
  LET x == txn[w]
  IN /\ x.pc # "idle"
     /\ result' = Result(x.op, x.session_id, x.user_id, "error", None)
     /\ sessions' =
          IF SessionKey(x.session_id) \in x.locks
            THEN [sessions EXCEPT ![x.session_id] =
                    Flush(@, x.loaded[1],
                          SessionFinalize(x.loaded[1], x.c[1], x.t))]
            ELSE sessions
     /\ txn' = [txn EXCEPT ![w] = Idle]
     /\ UNCHANGED <<assignments, kids, routines, now, exercise_ok>>

\* get_db: an exception raised by a statement or by commit() leaves the
\* "with Session(engine)" block; the session is closed and what it flushed
\* is rolled back.
get_db_rollback(w) ==
  /\ txn[w].pc # "idle"
  /\ result' = Result(txn[w].op, txn[w].session_id, txn[w].user_id,
                      "error", None)
  /\ txn' = [txn EXCEPT ![w] = Idle]
  /\ UNCHANGED <<tables, now, exercise_ok>>

NextTx ==
  \/ \E w \in Workers, s \in SessionIds, u \in UserIds : get_session_tx(w, s, u)
  \/ \E w \in Workers, s \in SessionIds, u \in UserIds :
       complete_exercise_select(w, s, u)
  \/ \E w \in Workers : complete_exercise_commit(w)
  \/ \E w \in Workers, s \in SessionIds, c \in CompletionInputs, u \in UserIds :
       complete_session_select(w, s, c, u)
  \/ \E w \in Workers : complete_session_assignment(w)
  \/ \E w \in Workers : complete_session_kid(w)
  \/ \E w \in Workers : complete_session_commit(w)
  \/ \E w \in Workers : get_db_rollback(w)

\* The transactions start from tables in which s1 and s2 are both in progress.
InitTx ==
  /\ Init
  /\ DOMAIN sessions = SessionIds
  /\ \A s \in SessionIds : sessions[s].status = IN_PROGRESS

SpecTx == InitTx /\ [][NextTx]_vars

\* =================================================================== claims
\* The step answers a call of `op` addressed at session s.
Call(op, s) ==
  /\ now' = now + 1
  /\ result'.op = op
  /\ result'.target = s

\* User u is the user of the kid that stored session s belongs to.
Owns(u, s) ==
  /\ sessions[s].kid_id \in DOMAIN kids
  /\ kids[sessions[s].kid_id].user_id = u

Terminal(row) == row.status \in {COMPLETED, ABANDONED}

\* complete_session is the only writer of total_time_minutes: the column is
\* set exactly on the sessions complete_session has been applied to.
Finalized(row) == row.total_time_minutes # None

C2_CompleteSessionOnce ==
  [][\A s \in DOMAIN sessions :
       (Finalized(sessions[s]) /\ Call("complete_session", s))
       => /\ result'.outcome # "ok"
          /\ kids' = kids
          /\ assignments' = assignments]_vars

\* C3: after every complete_exercise call on a session, successful or
\* answered not-found, the session has exercises_completed <= total_exercises.
C3_AfterCompleteExercise ==
  (result.op = "complete_exercise" /\ result.target \in DOMAIN sessions)
  => sessions[result.target].exercises_completed
       <= sessions[result.target].total_exercises

\* C4: every stored session has exercises_completed <= total_exercises.
C4_CompletedWithinTotal ==
  \A s \in DOMAIN sessions :
    sessions[s].exercises_completed <= sessions[s].total_exercises

\* C5: a session with total_exercises = N on which only complete_exercise
\* acts: its exercises_completed is the number k of successful calls, it is
\* IN_PROGRESS with no completed_at while k < N and COMPLETED with
\* completed_at set once k = N; a call by the owner succeeds and adds one
\* while k < N, and returns not-found and changes nothing once k = N.
C5_Progress(row, k) ==
  /\ row.exercises_completed = k
  /\ k <= row.total_exercises
  /\ (k < row.total_exercises) =>
       (row.status = IN_PROGRESS /\ row.completed_at = None)
  /\ (k = row.total_exercises) =>
       (row.status = COMPLETED /\ row.completed_at # None)

C5_ExerciseByExercise ==
  [][\A s \in DOMAIN sessions :
       (~Finalized(sessions[s]) /\ sessions[s].status # ABANDONED) =>
         /\ C5_Progress(sessions[s], exercise_ok[s])
         /\ ~Finalized(sessions'[s]) => C5_Progress(sessions'[s], exercise_ok'[s])
         /\ ( /\ Call("complete_exercise", s)
              /\ Owns(result'.user_id, s) )
            => IF exercise_ok[s] < sessions[s].total_exercises
                 THEN /\ result'.outcome = "ok"
                      /\ exercise_ok'[s] = exercise_ok[s] + 1
                      /\ exercise_ok'[s] = sessions[s].total_exercises
                           => sessions'[s].completed_at = Some(now')
                 ELSE /\ result'.outcome = "not_found"
                      /\ sessions'[s] = sessions[s]]_vars

\* C5 witness: a session of two or more exercises was completed exercise by
\* exercise and the owner's next complete_exercise call got not-found.
C5_Witness ==
  /\ result.op = "complete_exercise"
  /\ result.outcome = "not_found"
  /\ result.target \in DOMAIN sessions
  /\ Owns(result.user_id, result.target)
  /\ ~Finalized(sessions[result.target])
  /\ sessions[result.target].total_exercises >= 2
  /\ sessions[result.target].status = COMPLETED
  /\ exercise_ok[result.target] = sessions[result.target].total_exercises

\* C6: every kid's stats satisfy longest_streak >= current_streak.
C6_LongestAtLeastCurrent ==
  \A k \in DOMAIN kids :
    kids[k].stats.longest_streak >= kids[k].stats.current_streak

\* C7: get_session, complete_exercise and complete_session called on a stored
\* session by a user who does not own the session's kid return not-found (a
\* body that does not parse is rejected before that), carry no data, and
\* change no session, assignment or kid.
C7_OwnershipIsolation ==
  [][\A s \in DOMAIN sessions :
       ( /\ \/ Call("get_session", s)
            \/ Call("complete_exercise", s)
            \/ Call("complete_session", s)
         /\ ~Owns(result'.user_id, s) )
       => /\ \/ result'.outcome = "not_found"
             \/ /\ result'.op = "complete_session"
                /\ result'.outcome = "validation_error"
          /\ result'.data = None
          /\ UNCHANGED <<sessions, assignments, kids>>]_vars

\* C7 witness: complete_session with a body that parses, called on a stored
\* session by a user who does not own its kid, was answered not-found.
C7_Witness ==
  /\ result.op = "complete_session"
  /\ result.outcome = "not_found"
  /\ result.target \in DOMAIN sessions
  /\ ~Owns(result.user_id, result.target)

\* C8: in the committed tables a session never becomes finalized by
\* complete_session without, in the same step, being COMPLETED, its linked
\* assignment being COMPLETED with the same duration, and its kid's stats
\* carrying this completion (last_activity is the call's timestamp).
C8_CascadeAtomic ==
  [][\A s \in DOMAIN sessions :
       (~Finalized(sessions[s]) /\ Finalized(sessions'[s])) =>
         /\ sessions'[s].status = COMPLETED
         /\ \A a \in LinkedAssignment(assignments', sessions'[s]) :
              /\ assignments'[a].status = ASSIGNMENT_COMPLETED
              /\ assignments'[a].completion_time_minutes
                   = sessions'[s].total_time_minutes
         /\ kids'[sessions'[s].kid_id].stats.last_activity
              = sessions'[s].completed_at
         /\ kids'[sessions'[s].kid_id].stats.total_routines >= 1]_vars

\* C8 witness: a reader (get_session) has been handed a session finalized by
\* complete_session that has a linked assignment.
C8_Witness ==
  /\ result.op = "get_session"
  /\ result.outcome = "ok"
  /\ Finalized(result.data[1])
  /\ result.data[1].assignment_id # None
  /\ assignments[result.data[1].assignment_id[1]].status = ASSIGNMENT_COMPLETED

\* C9: a step of a complete_session call changes the three tables only when it
\* answers the call with success; a call that ends in not-found, in a
\* validation error or in an error raised while its UPDATEs were being written
\* has therefore stored nothing.
C9_FailureStoresNothing ==
  [][( /\ \/ \E w \in Workers :
               /\ txn'[w] # txn[w]
               /\ "complete_session" \in {txn[w].op, txn'[w].op}
            \/ (now' = now + 1 /\ result'.op = "complete_session")
         /\ ~( /\ result' # result
               /\ result'.op = "complete_session"
               /\ result'.outcome = "ok" ) )
      => UNCHANGED <<sessions, assignments, kids>>]_vars

\* C9 witness: a complete_session call failed with an error after its
\* transaction had started, and the session is not finalized.
C9_Witness ==
  /\ result.op = "complete_session"
  /\ result.outcome = "error"
  /\ ~Finalized(sessions[result.target])
  /\ \A a \in DOMAIN assignments : assignments[a].status = ASSIGNMENT_PENDING

\* C10: when no call is in flight, a session on which only complete_exercise
\* has acted has exercises_completed and current_exercise_index equal to the
\* number of complete_exercise calls on it that reported success.
C10_NoLostIncrement ==
  \A s \in DOMAIN sessions :
    ( /\ \A w \in Workers : txn[w].pc = "idle"
      /\ ~Finalized(sessions[s]) )
    => /\ sessions[s].exercises_completed = exercise_ok[s]
       /\ sessions[s].current_exercise_index = exercise_ok[s]

\* C11: complete_session does not require IN_PROGRESS: called by the owner
\* with a valid input on a session that complete_exercise has auto-completed,
\* it succeeds, leaves the status COMPLETED, sets total_time_minutes,
\* exercises_completed, overall_rating and notes to the input's values, and
\* applies the stats cascade once (current_streak + 1, total_minutes + the
\* input's total_time_minutes).
C11_FinalizeAfterAutoComplete ==
  [][(result'.op = "complete_session" /\ now' = now + 1)
     => \A s \in {result'.target}, u \in {result'.user_id},
           c \in CompletionInputs :
       ( /\ s \in DOMAIN sessions
         /\ sessions[s].status = COMPLETED
         /\ ~Finalized(sessions[s])
         /\ Owns(u, s)
         /\ SessionCompletion(c)
         /\ complete_session(s, c, u) )
       => LET old == kids[sessions[s].kid_id].stats
              new == kids'[sessions[s].kid_id].stats
          IN /\ result'.outcome = "ok"
             /\ sessions'[s].status = COMPLETED
             /\ sessions'[s].total_time_minutes = Some(c.total_time_minutes)
             /\ sessions'[s].exercises_completed = c.exercises_completed
             /\ sessions'[s].overall_rating = Some(c.overall_rating)
             /\ sessions'[s].notes = c.notes
             /\ new.current_streak = old.current_streak + 1
             /\ new.total_minutes = old.total_minutes + c.total_time_minutes
             /\ new.total_routines = old.total_routines + 1]_vars

\* C11 witness: a session of two exercises was completed by two
\* complete_exercise calls and then finalized by the owner's complete_session.
C11_Witness ==
  /\ result.op = "complete_session"
  /\ result.outcome = "ok"
  /\ sessions[result.target].total_exercises = 2
  /\ exercise_ok[result.target] = 2
  /\ sessions[result.target].current_exercise_index = 2
  /\ kids[sessions[result.target].kid_id].stats.current_streak = 1

\* C12: a successful complete_session changes the stats of the session's kid
\* to exactly: total_routines + 1, this_week_completed + 1, current_streak + 1,
\* total_minutes + the input's total_time_minutes, last_activity = now,
\* longest_streak = max(old longest_streak, new current_streak), with
\* this_week_assigned and favorite_category unchanged.
C12_StatsCascadeExact ==
  [][(result'.op = "complete_session" /\ now' = now + 1
       /\ result'.outcome = "ok")
     => \A s \in {result'.target}, u \in {result'.user_id},
           c \in CompletionInputs :
       complete_session(s, c, u)
       => LET old == kids[sessions[s].kid_id].stats
              new == kids'[sessions[s].kid_id].stats
          IN new = [total_routines |-> old.total_routines + 1,
                    this_week_completed |-> old.this_week_completed + 1,
                    this_week_assigned |-> old.this_week_assigned,
                    current_streak |-> old.current_streak + 1,
                    longest_streak |->
                      IF old.longest_streak >= old.current_streak + 1
                        THEN old.longest_streak ELSE old.current_streak + 1,
                    favorite_category |-> old.favorite_category,
                    total_minutes |-> old.total_minutes + c.total_time_minutes,
                    last_activity |-> Some(now')]]_vars

\* C12 witness: two sessions of a kid have been completed; its streak and its
\* longest streak are both 2.
C12_Witness ==
  /\ result.op = "complete_session"
  /\ result.outcome = "ok"
  /\ kids[sessions[result.target].kid_id].stats.current_streak = 2
  /\ kids[sessions[result.target].kid_id].stats.longest_streak = 2
  /\ kids[sessions[result.target].kid_id].stats.total_routines = 2

\* C13: a successful complete_session on a session that references an
\* assignment sets that assignment's status to COMPLETED, its
\* completion_time_minutes and exercises_completed to the input's values, and
\* leaves its note (and its kid and routine) as they were; every other
\* assignment, and every assignment when the session references none, is
\* unchanged.
C13_AssignmentCascade ==
  [][(result'.op = "complete_session" /\ now' = now + 1
       /\ result'.outcome = "ok")
     => \A s \in {result'.target}, u \in {result'.user_id},
           c \in CompletionInputs :
       complete_session(s, c, u)
       => \A a \in DOMAIN assignments :
            IF sessions[s].assignment_id = Some(a)
              THEN /\ assignments'[a].status = ASSIGNMENT_COMPLETED
                   /\ assignments'[a].completion_time_minutes
                        = Some(c.total_time_minutes)
                   /\ assignments'[a].exercises_completed
                        = Some(c.exercises_completed)
                   /\ assignments'[a].notes = assignments[a].notes
                   /\ assignments'[a].kid_id = assignments[a].kid_id
                   /\ assignments'[a].routine_id = assignments[a].routine_id
              ELSE assignments'[a] = assignments[a]]_vars

\* C13 witness: a session with a linked assignment was finalized with a note
\* in the input; the assignment is COMPLETED and has no note.
C13_Witness ==
  /\ result.op = "complete_session"
  /\ result.outcome = "ok"
  /\ sessions[result.target].assignment_id # None
  /\ sessions[result.target].notes # None
  /\ assignments[sessions[result.target].assignment_id[1]].status
       = ASSIGNMENT_COMPLETED
  /\ assignments[sessions[result.target].assignment_id[1]].notes = None

\* The request names a kid, a routine and (if any) an assignment that the
\* look-ups of create_session accept for the caller.
ValidStart(k, r, a, u) ==
  /\ k \in DOMAIN kids /\ kids[k].is_active /\ kids[k].user_id = u
  /\ r \in DOMAIN routines /\ routines[r].is_active
  /\ a # None => /\ a[1] \in DOMAIN assignments
                 /\ assignments[a[1]].kid_id = k

\* C14: with a valid, active, owned kid and an active routine (and, if given,
\* an assignment of that kid), create_session succeeds and stores exactly one
\* new session with status IN_PROGRESS, current_exercise_index 0,
\* exercises_completed 0 and total_exercises = the number of exercise entries
\* of the routine.
C14_CreateSessionStores ==
  [][(result'.op = "create_session" /\ now' = now + 1)
     => \A k \in {result'.target}, u \in {result'.user_id},
           r \in RoutineIdInputs, a \in AssignmentIdInputs :
          (ValidStart(k, r, a, u) /\ create_session(k, r, a, u))
          => /\ result'.outcome = "ok"
             /\ \E s \in SessionIds :
                  /\ s \notin DOMAIN sessions
                  /\ DOMAIN sessions' = DOMAIN sessions \cup {s}
                  /\ sessions'[s].status = IN_PROGRESS
                  /\ sessions'[s].current_exercise_index = 0
                  /\ sessions'[s].exercises_completed = 0
                  /\ sessions'[s].total_exercises = TotalExercises(routines, r)
                  /\ \A t \in DOMAIN sessions : sessions'[t] = sessions[t]]_vars

\* C15: create_session answers NotFound and stores no session when the kid
\* does not exist, is inactive or is not the caller's, when the routine does
\* not exist or is inactive, or when an assignment id is given and that
\* assignment does not exist, belongs to a different kid, or belongs to a kid
\* of another user.
C15_CreateSessionNotFound ==
  [][(result'.op = "create_session" /\ now' = now + 1)
     => \A k \in {result'.target}, u \in {result'.user_id},
           r \in RoutineIdInputs, a \in AssignmentIdInputs :
          (~ValidStart(k, r, a, u) /\ create_session(k, r, a, u))
          => /\ result'.outcome = "not_found"
             /\ sessions' = sessions]_vars

\* C15 witness: the caller's active kid k2 and an active routine were named
\* together with an assignment, and the answer was "Assignment not found":
\* the only stored assignment is another kid's.
C15_Witness ==
  /\ result.op = "create_session"
  /\ result.outcome = "not_found"
  /\ result.data = Some("Assignment not found")
  /\ result.target = "k2"
  /\ kids["k2"].user_id = result.user_id
  /\ \E a \in DOMAIN assignments : assignments[a].kid_id # "k2"
  /\ \E k \in DOMAIN kids : ~kids[k].is_active

\* C16: a create_session call, accepted by the look-ups or not, leaves every
\* assignment (its status included), every kid (its stats included) and every
\* routine as they were.
C16_CreateSessionNoSideEffects ==
  [][(result'.op = "create_session" /\ now' = now + 1)
     => /\ assignments' = assignments
        /\ kids' = kids
        /\ routines' = routines]_vars

\* C16 witness: a request that passed the three look-ups has been answered
\* while the kid's assignment is still pending.
C16_Witness ==
  /\ result.op = "create_session"
  /\ result.outcome # "not_found"
  /\ \E a \in DOMAIN assignments :
       /\ assignments[a].kid_id = result.target
       /\ assignments[a].status = ASSIGNMENT_PENDING

\* C17: total_exercises of a stored session is a snapshot: no step
\* (complete_exercise, complete_session, update_routine replacing the
\* routine's exercise list, or any other call) changes it.
C17_TotalExercisesSnapshot ==
  [][\A s \in DOMAIN sessions :
       /\ s \in DOMAIN sessions'
       /\ sessions'[s].total_exercises = sessions[s].total_exercises]_vars

\* C17 witness: the exercise list of a session's routine has been replaced by
\* a list of another length after progress was recorded on the session.
C17_Witness ==
  /\ result.op = "update_routine"
  /\ result.outcome = "ok"
  /\ \E s \in DOMAIN sessions :
       /\ sessions[s].routine_id = result.target
       /\ sessions[s].exercises_completed >= 1
       /\ sessions[s].total_exercises # routines[result.target].exercises

C19_StrictlyIncremental ==
  [][(result'.op = "complete_exercise" /\ now' = now + 1
       /\ result'.outcome = "ok")
     => \A s \in {result'.target} :
       s \in DOMAIN sessions
       => LET old == sessions[s]
              new == sessions'[s]
              final == old.exercises_completed + 1 >= old.total_exercises
          IN /\ new.exercises_completed = old.exercises_completed + 1
             /\ new.current_exercise_index = old.current_exercise_index + 1
             /\ new.status = IF final THEN COMPLETED ELSE old.status
             /\ new.completed_at = IF final THEN Some(now') ELSE old.completed_at
             /\ [new EXCEPT !.exercises_completed = old.exercises_completed,
                            !.current_exercise_index = old.current_exercise_index,
                            !.status = old.status,
                            !.completed_at = old.completed_at,
                            !.updated_at = old.updated_at] = old]_vars

\* C19 witness: a successful complete_exercise that did not finalize.
C19_Witness ==
  /\ result.op = "complete_exercise"
  /\ result.outcome = "ok"
  /\ sessions[result.target].status = IN_PROGRESS
  /\ sessions[result.target].exercises_completed = 2

\* C20: a session whose status is COMPLETED or ABANDONED stays stored and is
\* never IN_PROGRESS in the next state, whatever operation is applied.
C20_NoResurrection ==
  [][\A s \in DOMAIN sessions :
       Terminal(sessions[s])
       => /\ s \in DOMAIN sessions'
          /\ sessions'[s].status # IN_PROGRESS]_vars

\* C20 witness: complete_session with a count below the total was applied, and
\* a later complete_exercise by the owner found the session not in progress.
C20_Witness ==
  /\ result.op = "complete_exercise"
  /\ result.outcome = "not_found"
  /\ result.target \in DOMAIN sessions
  /\ Owns(result.user_id, result.target)
  /\ Finalized(sessions[result.target])
  /\ sessions[result.target].exercises_completed
       < sessions[result.target].total_exercises
  /\ sessions[result.target].status = COMPLETED

\* C21: current_exercise_index of a stored session never decreases: a
\* successful complete_exercise raises it by one, and complete_session and
\* get_session (and every other step) leave it unchanged.
C21_IndexNeverDecreases ==
  [][\A s \in DOMAIN sessions :
       /\ s \in DOMAIN sessions'
       /\ sessions'[s].current_exercise_index >= sessions[s].current_exercise_index
       /\ sessions'[s].current_exercise_index # sessions[s].current_exercise_index
            => /\ Call("complete_exercise", s)
               /\ result'.outcome = "ok"
               /\ sessions'[s].current_exercise_index
                    = sessions[s].current_exercise_index + 1]_vars

\* C21 witness: complete_session with a count of 0 was applied to a session
\* whose index had been advanced; the index is still above the count.
C21_Witness ==
  /\ result.op = "complete_session"
  /\ result.outcome = "ok"
  /\ sessions[result.target].exercises_completed = 0
  /\ sessions[result.target].current_exercise_index >= 1
  /\ sessions[result.target].current_exercise_index = exercise_ok[result.target]

\* C22: the summary in the answer of a successful complete_session has
\* new_streak equal to the kid's stored current_streak after the call,
\* total_minutes equal to the kid's stored total_minutes after the call, and
\* level_up false.
C22_SummaryMatchesStored ==
  [][(result'.op = "complete_session" /\ now' = now + 1
       /\ result'.outcome = "ok")
     => LET summary == result'.data[1].stats_updated
            stored == kids'[sessions[result'.target].kid_id].stats
        IN /\ summary.new_streak = stored.current_streak
           /\ summary.total_minutes = stored.total_minutes
           /\ summary.level_up = FALSE]_vars

\* C22 witness: the second completion for a kid answered with a streak of 2,
\* which is also the kid's longest streak.
C22_Witness ==
  /\ result.op = "complete_session"
  /\ result.outcome = "ok"
  /\ result.data[1].stats_updated.new_streak = 2
  /\ result.data[1].stats_updated.total_minutes >= 2
  /\ kids[sessions[result.target].kid_id].stats.longest_streak = 2

\* The body breaks one of the declared bounds of the completion input.
InvalidCompletion(c) ==
  \/ c.total_time_minutes < 1
  \/ c.exercises_completed < 0
  \/ c.overall_rating < 1
  \/ c.overall_rating > 5
  \/ (c.notes # None /\ c.notes[1].len > 500)

\* C23: a complete_session request whose total_time_minutes is below 1, whose
\* exercises_completed is below 0, whose overall_rating is outside 1..5 or
\* whose note is longer than 500 characters is answered with a validation
\* error, and sessions, assignments and kids are unchanged.
C23_ValidationBeforeMutation ==
  [][(result'.op = "complete_session" /\ now' = now + 1)
     => \A s \in {result'.target}, u \in {result'.user_id},
           c \in CompletionInputs :
          (InvalidCompletion(c) /\ complete_session(s, c, u))
          => /\ result'.outcome = "validation_error"
             /\ sessions' = sessions
             /\ assignments' = assignments
             /\ kids' = kids]_vars

\* C23 witness: the owner's request on a session in progress with recorded
\* progress was answered with a validation error.
C23_Witness ==
  /\ result.op = "complete_session"
  /\ result.outcome = "validation_error"
  /\ result.target \in DOMAIN sessions
  /\ Owns(result.user_id, result.target)
  /\ sessions[result.target].status = IN_PROGRESS
  /\ sessions[result.target].exercises_completed >= 1

\* C24: a complete_exercise step, the auto-finalizing one included, changes
\* no assignment and no kid.
C24_ExerciseNoCascade ==
  [][(result'.op = "complete_exercise" /\ now' = now + 1)
     => /\ assignments' = assignments
        /\ kids' = kids]_vars

\* C24 witness: complete_exercise auto-finalized a session that has an
\* assignment; the assignment is still pending and the kid has no completed
\* routine.
C24_Witness ==
  /\ result.op = "complete_exercise"
  /\ result.outcome = "ok"
  /\ sessions[result.target].status = COMPLETED
  /\ sessions[result.target].assignment_id # None
  /\ assignments[sessions[result.target].assignment_id[1]].status
       = ASSIGNMENT_PENDING
  /\ kids[sessions[result.target].kid_id].stats.total_routines = 0

\* C25: for get_session, complete_exercise and complete_session (with a valid
\* body), a session id that is not stored, a stored session of another user's
\* kid and, for complete_exercise, an owned session that is not IN_PROGRESS
\* all get the same answer: not found, without data, and nothing is written.
C25_NotFoundIndistinguishable ==
  [][(/\ now' = now + 1
      /\ result'.op \in {"get_session", "complete_exercise", "complete_session"}
      /\ result'.outcome # "validation_error")
     => LET s == result'.target
            u == result'.user_id
            hidden == IF s \notin DOMAIN sessions THEN TRUE
                      ELSE IF ~Owns(u, s) THEN TRUE
                      ELSE /\ result'.op = "complete_exercise"
                           /\ sessions[s].status # IN_PROGRESS
        IN hidden => /\ result'.outcome = "not_found"
                     /\ result'.data = None
                     /\ tables' = tables]_vars

\* C25 witness: get_session by a user who does not own the stored session was
\* answered not found while another session id is not stored at all.
C25_Witness ==
  /\ result.op = "get_session"
  /\ result.outcome = "not_found"
  /\ result.target \in DOMAIN sessions
  /\ ~Owns(result.user_id, result.target)
  /\ DOMAIN sessions # SessionIds

\* C26: the stats of a stored kid change only in a successful complete_session
\* step on a session of that kid; no other call changes them.
C26_StatsOnlyByCascade ==
  [][\A k \in DOMAIN kids :
       /\ k \in DOMAIN kids'
       /\ kids'[k].stats # kids[k].stats
            => /\ result'.op = "complete_session"
               /\ result'.outcome = "ok"
               /\ sessions[result'.target].kid_id = k]_vars

\* C27: when no call is in flight and each of the two sessions of a kid has
\* been finalized by one of exactly two calls, the kid's total_routines,
\* this_week_completed and current_streak are 2 and its total_minutes is the
\* sum of the two inputs' total_time_minutes.
C27_NoLostStatsUpdate ==
  ( /\ \A w \in Workers : txn[w].pc = "idle"
    /\ now = 2
    /\ DOMAIN sessions = SessionIds
    /\ \A s \in SessionIds : Finalized(sessions[s]) /\ sessions[s].kid_id = "k1" )
  => /\ kids["k1"].stats.total_routines = 2
     /\ kids["k1"].stats.this_week_completed = 2
     /\ kids["k1"].stats.current_streak = 2
     /\ kids["k1"].stats.total_minutes
          = sessions["s1"].total_time_minutes[1]
            + sessions["s2"].total_time_minutes[1]

\* C28: when no call is in flight, a session that complete_session has been
\* applied to is COMPLETED and its exercises_completed is the value supplied
\* to complete_session, whatever complete_exercise call ran alongside.
C28_ExerciseDoesNotOverwrite ==
  \A s \in DOMAIN sessions :
    ( /\ \A w \in Workers : txn[w].pc = "idle"
      /\ Finalized(sessions[s]) )
    => /\ sessions[s].status = COMPLETED
       /\ \A c \in CompletionInputs :
            ( /\ SessionCompletion(c)
              /\ sessions[s].total_time_minutes = Some(c.total_time_minutes)
              /\ sessions[s].overall_rating = Some(c.overall_rating) )
            => sessions[s].exercises_completed = c.exercises_completed

\* C29: every stored session with status IN_PROGRESS has
\* current_exercise_index equal to exercises_completed and exercises_completed
\* strictly below total_exercises.
C29_InProgressShape ==
  \A s \in DOMAIN sessions :
    sessions[s].status = IN_PROGRESS
    => /\ sessions[s].current_exercise_index = sessions[s].exercises_completed
       /\ sessions[s].exercises_completed < sessions[s].total_exercises

\* C29 witness: a session still in progress after two recorded exercises.
C29_Witness ==
  \E s \in DOMAIN sessions :
    /\ sessions[s].status = IN_PROGRESS
    /\ sessions[s].exercises_completed = 2
    /\ exercise_ok[s] = 2

\* C30: the exercise-completion route, called by the owner on an IN_PROGRESS
\* session with a valid body, runs the engine's complete_exercise and answers
\* with the updated session; it answers not found only when the session is
\* missing, not owned or not in progress.
C30_RouteCompletesExercise ==
  [][(result'.op = "router_complete_exercise" /\ now' = now + 1
       /\ result'.outcome # "validation_error")
     => LET s == result'.target
            u == result'.user_id
            open == IF s \notin DOMAIN sessions THEN FALSE
                    ELSE Owns(u, s) /\ sessions[s].status = IN_PROGRESS
        IN IF open
             THEN /\ result'.outcome = "ok"
                  /\ sessions'[s].exercises_completed
                       = sessions[s].exercises_completed + 1
                  /\ result'.data = Some(sessions'[s])
             ELSE /\ result'.outcome = "not_found"
                  /\ sessions' = sessions]_vars

====
